---- MODULE Spec2Model ----
(***************************************************************************)
(* The text-analysis helpers of src/main.py (section extraction, risk      *)
(* segmentation and classification, MD&A highlights, section comparison)   *)
(* and the /extract handlers that call them.                               *)
(*                                                                         *)
(* A Python str is a sequence of characters.  An ASCII character is the    *)
(* one-character string; a non-ASCII character is the string naming its    *)
(* code point ("U+0130").  Offsets are Python's: 0-based, slices half-open.*)
(***************************************************************************)
EXTENDS Integers, Sequences, FiniteSets, TLC

VARIABLES pc, input, result

vars == <<pc, input, result>>

-----------------------------------------------------------------------------
(* Characters and strings                                                  *)

\* The characters of an ASCII literal.
Chars(s) == [i \in 1..Len(s) |-> SubSeq(s, i, i)]

NL == "\n"
I_DOT == "U+0130"      \* LATIN CAPITAL LETTER I WITH DOT ABOVE
DOT_ABOVE == "U+0307"  \* COMBINING DOT ABOVE
BULLET == "U+2022"
MIDDOT == "U+00B7"

AsciiUpper == Chars("ABCDEFGHIJKLMNOPQRSTUVWXYZ")
AsciiLower == Chars("abcdefghijklmnopqrstuvwxyz")
UpperSet == {AsciiUpper[i] : i \in 1..Len(AsciiUpper)}
Digits == {"0", "1", "2", "3", "4", "5", "6", "7", "8", "9"}

\* What \s matches and what str.strip() removes (the ASCII part of it).
Whitespace == {" ", "\t", "\n", "\r", "\f"}

ToLower == [c \in UpperSet |-> AsciiLower[CHOOSE i \in 1..Len(AsciiUpper) : AsciiUpper[i] = c]]

\* str.lower() of one character: U+0130 is the one character whose lower
\* case is two characters long.
LowerChar(c) ==
    IF c \in UpperSet THEN <<ToLower[c]>>
    ELSE IF c = I_DOT THEN <<"i", DOT_ABOVE>>
    ELSE <<c>>

RECURSIVE LowerRange(_, _, _)
LowerRange(s, a, b) ==
    IF a > b THEN <<>>
    ELSE IF a = b THEN LowerChar(s[a])
    ELSE LET m == (a + b) \div 2
         IN  LowerRange(s, a, m) \o LowerRange(s, m + 1, b)

\* str.lower()
Lower(s) == LowerRange(s, 1, Len(s))

\* The case folding of re.IGNORECASE: one character to one character.
FoldChar(c) ==
    IF c \in UpperSet THEN ToLower[c]
    ELSE IF c = I_DOT THEN "i"
    ELSE c

Min(a, b) == IF a < b THEN a ELSE b

\* s[a:b] for 0 <= a, 0 <= b: the slice is clamped to the string.
Slice(s, a, b) == SubSeq(s, a + 1, Min(b, Len(s)))

\* Where a greedy run of characters of class that starts at offset from
\* ends: the least offset at or after from whose character is not in class,
\* or the length of s.
RunEnd(s, from, class) ==
    IF from >= Len(s) THEN from
    ELSE CHOOSE i \in from..Len(s) :
            /\ i = Len(s) \/ s[i + 1] \notin class
            /\ \A k \in from..(i - 1) : s[k + 1] \in class

\* str.strip()
Strip(s) ==
    LET a == RunEnd(s, 0, Whitespace)
    IN  IF a >= Len(s) THEN <<>>
        ELSE LET b == CHOOSE j \in 1..Len(s) :
                         /\ s[j] \notin Whitespace
                         /\ \A k \in (j + 1)..Len(s) : s[k] \in Whitespace
             IN  SubSeq(s, a + 1, b)

\* keyword in s
Contains(s, keyword) ==
    \E i \in 0..(Len(s) - Len(keyword)) :
        \A j \in 1..Len(keyword) : s[i + j] = keyword[j]

\* s repeated n times.
Repeat(s, n) == [i \in 1..(n * Len(s)) |-> s[((i - 1) % Len(s)) + 1]]

\* The concatenations of at most n members of F.
RECURSIVE Concats(_, _)
Concats(F, n) ==
    IF n = 0 THEN {<<>>}
    ELSE LET prev == Concats(F, n - 1)
         IN  prev \cup {p \o f : p \in prev, f \in F}

NoMatch == [start |-> -1, end |-> -1]

-----------------------------------------------------------------------------
(* extract_section_from_text                                               *)

\* [.\s\-]
MarkerTail == {".", "-"} \cup Whitespace

\* re.compile(f"{marker}[.\s\-]*", re.IGNORECASE) matching at offset i.  The
\* markers of the three call sites hold no regex metacharacter: each of
\* their characters matches itself, case-insensitively.
MarkerMatchAt(marker, text, i) ==
    /\ i + Len(marker) <= Len(text)
    /\ \A j \in 1..Len(marker) : FoldChar(text[i + j]) = FoldChar(marker[j])

\* pattern.search(text, pos): the leftmost match at or after pos.
MarkerSearch(marker, text, pos) ==
    IF \E i \in pos..Len(text) : MarkerMatchAt(marker, text, i)
    THEN LET i == CHOOSE i \in pos..Len(text) :
                     /\ MarkerMatchAt(marker, text, i)
                     /\ \A k \in pos..(i - 1) : ~MarkerMatchAt(marker, text, k)
         IN  [start |-> i, end |-> RunEnd(text, i + Len(marker), MarkerTail)]
    ELSE NoMatch

extract_section_from_text(full_text, start_marker, end_marker) ==
    LET text_lower == Lower(full_text)
        start_match == MarkerSearch(start_marker, text_lower, 0)
    IN  IF start_match = NoMatch THEN <<>>
        ELSE LET start_idx == start_match.end
                 end_match == MarkerSearch(end_marker, text_lower, start_idx)
                 end_idx == IF end_match # NoMatch THEN end_match.start
                            ELSE Len(text_lower)
             IN  Strip(Slice(full_text, start_idx, end_idx))

\* The pieces the section inputs are built from.
SectionFragments ==
    { Chars("Item 1"), Chars("ITEM 1A"), Chars("item 1b"), Chars(". "),
      Chars("Foo"), Chars(" - Bar "), <<I_DOT>> }

\* The marker pairs of the call sites.
MarkerPairs ==
    { <<Chars("item 1"), Chars("item 1a")>>,
      <<Chars("item 1a"), Chars("item 1b")>> }

MaxSectionFragments == 4

InitSection ==
    /\ pc = "call"
    /\ \E t \in Concats(SectionFragments, MaxSectionFragments), m \in MarkerPairs :
          input = [full_text |-> t, start_marker |-> m[1], end_marker |-> m[2]]
    /\ result = <<>>

ExtractSection ==
    /\ pc = "call"
    /\ result' = extract_section_from_text(input.full_text, input.start_marker,
                                           input.end_marker)
    /\ pc' = "done"
    /\ UNCHANGED input

NextSection == ExtractSection

SpecSection == InitSection /\ [][NextSection]_vars

\* The section the contract describes: the markers are found in the text
\* itself, and the offsets are offsets into it.
ContractSection(text, start_marker, end_marker) ==
    LET start_match == MarkerSearch(start_marker, text, 0)
    IN  IF start_match = NoMatch THEN <<>>
        ELSE LET end_match == MarkerSearch(end_marker, text, start_match.end)
                 end_idx == IF end_match # NoMatch THEN end_match.start ELSE Len(text)
             IN  Strip(Slice(text, start_match.end, end_idx))

\* C1: extract_section_from_text returns "" when the start marker matches
\* nowhere, and otherwise the trimmed part of the original text between the
\* end of the first start-marker match and the first end-marker match at or
\* after it (or the end of the text).
C1_SectionIsBetweenMarkers ==
    pc = "done" =>
        result = ContractSection(input.full_text, input.start_marker, input.end_marker)

\* C1 on the texts whose lower case is as long as the text.
C1_SectionWhenLowerKeepsLength ==
    (pc = "done" /\ \A i \in 1..Len(input.full_text) : input.full_text[i] # I_DOT) =>
        result = ContractSection(input.full_text, input.start_marker, input.end_marker)

-----------------------------------------------------------------------------
(* categorize_risk, assess_severity                                        *)

\* The dict of categorize_risk, in its insertion order: the order in which
\* categories.items() yields it.
categories ==
    << [category |-> "Cybersecurity",
        keywords |-> <<Chars("cyber"), Chars("data breach"), Chars("security"),
                       Chars("hack")>>],
       [category |-> "Regulatory",
        keywords |-> <<Chars("regulation"), Chars("compliance"), Chars("legal"),
                       Chars("law")>>],
       [category |-> "Market",
        keywords |-> <<Chars("market"), Chars("competition"), Chars("demand"),
                       Chars("customer")>>],
       [category |-> "Financial",
        keywords |-> <<Chars("financial"), Chars("credit"), Chars("liquidity"),
                       Chars("debt")>>],
       [category |-> "Operational",
        keywords |-> <<Chars("operation"), Chars("supply"), Chars("manufacturing"),
                       Chars("production")>>],
       [category |-> "Technology",
        keywords |-> <<Chars("technology"), Chars("innovation"), Chars("obsolete"),
                       Chars("intellectual property")>>],
       [category |-> "Environmental",
        keywords |-> <<Chars("climate"), Chars("environmental"),
                       Chars("sustainability"), Chars("carbon")>>] >>

\* any(keyword in text for keyword in keywords)
AnyIn(keywords, text) == \E k \in 1..Len(keywords) : Contains(text, keywords[k])

\* A wrong categorize_risk: the last matching category wins.
categorize_risk_last_match(risk_text) ==
    LET text_lower == Lower(risk_text)
        hits == {c \in 1..Len(categories) : AnyIn(categories[c].keywords, text_lower)}
    IN  IF hits = {} THEN "General"
        ELSE categories[CHOOSE c \in hits : \A d \in hits : d <= c].category

\* A wrong categorize_risk: no fallback category.
categorize_risk_no_fallback(risk_text) ==
    LET text_lower == Lower(risk_text)
        hits == {c \in 1..Len(categories) : AnyIn(categories[c].keywords, text_lower)}
    IN  IF hits = {} THEN "None"
        ELSE categories[CHOOSE c \in hits : \A d \in hits : c <= d].category

categorize_risk(risk_text) ==
    LET text_lower == Lower(risk_text)
        hits == {c \in 1..Len(categories) : AnyIn(categories[c].keywords, text_lower)}
    IN  IF hits = {} THEN "General"
        ELSE categories[CHOOSE c \in hits : \A d \in hits : c <= d].category

HighPhrases == <<Chars("material adverse"), Chars("significant harm"),
                 Chars("substantial loss")>>
MediumPhrases == <<Chars("adverse"), Chars("negative"), Chars("impact")>>

\* A wrong assess_severity: the Medium test comes first.
assess_severity_medium_first(risk_text) ==
    LET text_lower == Lower(risk_text)
    IN  IF AnyIn(MediumPhrases, text_lower) THEN "Medium"
        ELSE IF AnyIn(HighPhrases, text_lower) THEN "High"
        ELSE "Low"

assess_severity(risk_text) ==
    LET text_lower == Lower(risk_text)
    IN  IF AnyIn(HighPhrases, text_lower) THEN "High"
        ELSE IF AnyIn(MediumPhrases, text_lower) THEN "Medium"
        ELSE "Low"

-----------------------------------------------------------------------------
(* parse_risk_factors                                                      *)

MatchCap == 20      \* matches[:20]
MinRiskLen == 50    \* len(match) > 50

BulletChars == {BULLET, MIDDOT, "-", "*"}
Terminators == {".", "!", "?"}
RiskWords == <<Chars("Risk"), Chars("Uncertain"), Chars("Threat"), Chars("Challenge")>>

\* Where a greedy run of characters outside class that starts at offset
\* from ends.
RunEndNot(s, from, class) ==
    IF from >= Len(s) THEN from
    ELSE CHOOSE i \in from..Len(s) :
            /\ i = Len(s) \/ s[i + 1] \in class
            /\ \A k \in from..(i - 1) : s[k + 1] \notin class

\* \s*([^\n]+) from offset a, the tail of the bullet and numbered patterns,
\* in a match that began at offset i.  \s* takes the whole run of white
\* space; when the text ends with that run, the regex engine gives white
\* space back until [^\n]+ finds a character that is no line break.
TailCapture(text, i, a) ==
    LET b == RunEnd(text, a, Whitespace)
        back == {p \in a..(Len(text) - 1) : text[p + 1] # NL}
        g == IF b < Len(text) THEN b
             ELSE IF back = {} THEN -1
             ELSE CHOOSE p \in back : \A q \in back : q <= p
        e == RunEndNot(text, g, {NL})
    IN  IF g < 0 THEN NoMatch
        ELSE [start |-> i, end |-> e, group |-> Slice(text, g, e)]

\* r'\n\s*[•·\-\*]\s*([^\n]+)' matching at offset i
BulletMatchAt(text, i) ==
    IF i >= Len(text) \/ text[i + 1] # NL THEN NoMatch
    ELSE LET a == RunEnd(text, i + 1, Whitespace)
         IN  IF a < Len(text) /\ text[a + 1] \in BulletChars
             THEN TailCapture(text, i, a + 1)
             ELSE NoMatch

\* r'\n\s*\d+\.\s*([^\n]+)' matching at offset i
NumberedMatchAt(text, i) ==
    IF i >= Len(text) \/ text[i + 1] # NL THEN NoMatch
    ELSE LET a == RunEnd(text, i + 1, Whitespace)
             d == RunEnd(text, a, Digits)
         IN  IF d > a /\ d < Len(text) /\ text[d + 1] = "."
             THEN TailCapture(text, i, d + 1)
             ELSE NoMatch

\* r'\n\s*([A-Z][^.!?]*(?:Risk|Uncertain|Threat|Challenge)[^.!?]*[.!?])'
\* matching at offset i: the group runs from the capital letter to the first
\* terminator after it, and a risk word must lie between the two.
SentenceMatchAt(text, i) ==
    IF i >= Len(text) \/ text[i + 1] # NL THEN NoMatch
    ELSE LET a == RunEnd(text, i + 1, Whitespace)
             t == RunEndNot(text, a + 1, Terminators)
         IN  IF /\ a < Len(text)
                /\ text[a + 1] \in UpperSet
                /\ t < Len(text)
                /\ AnyIn(RiskWords, Slice(text, a + 1, t))
             THEN [start |-> i, end |-> t + 1, group |-> Slice(text, a, t + 1)]
             ELSE NoMatch

\* The list patterns of parse_risk_factors, by position.
PatternMatchAt(pattern, text, i) ==
    CASE pattern = 1 -> BulletMatchAt(text, i)
      [] pattern = 2 -> NumberedMatchAt(text, i)
      [] pattern = 3 -> SentenceMatchAt(text, i)

NumPatterns == 3

\* re.findall(pattern, text) from offset pos on: the groups of the
\* successive non-overlapping matches, leftmost first.  A match begins at a
\* line break, so only those offsets are tried.
RECURSIVE FindAllFrom(_, _, _)
FindAllFrom(pattern, text, pos) ==
    LET Matches(i) == text[i + 1] = NL /\ PatternMatchAt(pattern, text, i) # NoMatch
    IN  IF \E i \in pos..(Len(text) - 1) : Matches(i)
        THEN LET i == CHOOSE i \in pos..(Len(text) - 1) :
                         Matches(i) /\ \A k \in pos..(i - 1) : ~Matches(k)
                 m == PatternMatchAt(pattern, text, i)
             IN  <<m.group>> \o FindAllFrom(pattern, text, m.end)
        ELSE <<>>

findall(pattern, text) == FindAllFrom(pattern, text, 0)

RiskEntry(match) ==
    [risk |-> Strip(match), category |-> categorize_risk(match),
     severity |-> assess_severity(match)]

\* The entries one pattern appends: its first MatchCap matches, the short
\* ones skipped.
LongEnough(match) == Len(match) > MinRiskLen

\* A wrong loop: the short matches are skipped before the cap is applied.
PatternEntries_filter_before_cap(pattern, risk_text) ==
    LET matches == findall(pattern, risk_text)
        kept == Slice(SelectSeq(matches, LongEnough), 0, MatchCap)
    IN  [k \in 1..Len(kept) |-> RiskEntry(kept[k])]

PatternEntries(pattern, risk_text) ==
    LET matches == findall(pattern, risk_text)
        kept == SelectSeq(Slice(matches, 0, MatchCap), LongEnough)
    IN  [k \in 1..Len(kept) |-> RiskEntry(kept[k])]

RECURSIVE EntriesUpTo(_, _)
EntriesUpTo(pattern, risk_text) ==
    IF pattern = 0 THEN <<>>
    ELSE EntriesUpTo(pattern - 1, risk_text) \o PatternEntries(pattern, risk_text)

parse_risk_factors(risk_text) == EntriesUpTo(NumPatterns, risk_text)

-----------------------------------------------------------------------------
(* The inputs of the risk functions                                        *)

\* s, filled with "x" to n characters.
Pad(s, n) == s \o Repeat(<<"x">>, n - Len(s))

\* The pieces the short risk statements are built from.
StatementFragments ==
    { Chars("Cyber"), Chars(" market"), Chars("flawless"), Chars(" debt"),
      Chars(" supply"), Chars("carbon"), Chars("data "), Chars("breach"),
      Chars("material "), Chars("adverse"), Chars("NEGATIVE") }

MaxStatementFragments == 3

\* The lines the risk sections are built from.
BulletLong ==
    <<NL, "-", " ">> \o Pad(Chars("Cyber attacks on the market: material adverse "), MinRiskLen + 1)
BulletShort == <<NL, "*", " ">> \o Chars("too short")
\* MinRiskLen + 1 characters after the bullet, the last ten of them spaces.
BulletPadded ==
    <<NL, " ", BULLET, " ">> \o Pad(Chars("Obsolete technology "), MinRiskLen - 9)
        \o Repeat(<<" ">>, 10)
NumberedLong ==
    <<NL>> \o Chars("12. ") \o Pad(Chars("Debt covenants have a negative impact "), MinRiskLen + 1)
SentenceLong ==
    <<NL>> \o Pad(Chars("The Threat of new regulation and substantial loss "), MinRiskLen) \o <<".">>
SentenceShort == <<NL>> \o Chars("A Risk!")
\* A bullet alone on its line, and a risk sentence on the next one.
BulletThenSentence ==
    <<NL, "-", NL>> \o Pad(Chars("Climate Challenge for production "), MinRiskLen) \o <<"?">>
\* A bullet line with no line break before it.
BulletNoBreak == Chars("- ") \o Pad(Chars("Liquidity "), MinRiskLen + 1)

RiskBlocks ==
    { BulletLong, Repeat(BulletLong, MatchCap), Repeat(BulletShort, MatchCap),
      BulletPadded, NumberedLong, SentenceLong, SentenceShort,
      BulletThenSentence, BulletNoBreak }

MaxRiskBlocks == 2

RiskTexts ==
    Concats(StatementFragments, MaxStatementFragments)
        \cup Concats(RiskBlocks, MaxRiskBlocks)

InitRisk ==
    /\ pc = "call"
    /\ \E t \in RiskTexts : input = [risk_text |-> t]
    /\ result = <<>>

CategorizeRisk ==
    /\ pc = "call"
    /\ result' = categorize_risk(input.risk_text)
    /\ pc' = "categorized"
    /\ UNCHANGED input

AssessSeverity ==
    /\ pc = "call"
    /\ result' = assess_severity(input.risk_text)
    /\ pc' = "assessed"
    /\ UNCHANGED input

ParseRiskFactors ==
    /\ pc = "call"
    /\ result' = parse_risk_factors(input.risk_text)
    /\ pc' = "parsed"
    /\ UNCHANGED input

NextRisk == CategorizeRisk \/ AssessSeverity \/ ParseRiskFactors

SpecRisk == InitRisk /\ [][NextRisk]_vars

-----------------------------------------------------------------------------
(* Claims about categorize_risk, assess_severity and parse_risk_factors    *)

\* The order of the categories the contract fixes.
ContractOrder ==
    <<"Cybersecurity", "Regulatory", "Market", "Financial", "Operational",
      "Technology", "Environmental">>

KeywordsOf(category) ==
    categories[CHOOSE c \in 1..Len(categories) : categories[c].category = category].keywords

HasKeywordOf(category, text_lower) == AnyIn(KeywordsOf(category), text_lower)

\* C2: categorize_risk returns the first category, in the order
\* Cybersecurity, Regulatory, Market, Financial, Operational, Technology,
\* Environmental, that has a keyword in the lower-cased statement, whatever
\* later category matches too, and General exactly when none has one.
C2_FirstCategoryWins ==
    pc = "categorized" =>
        LET text_lower == Lower(input.risk_text)
        IN  /\ result = "General" <=>
                  \A k \in 1..Len(ContractOrder) : ~HasKeywordOf(ContractOrder[k], text_lower)
            /\ \A k \in 1..Len(ContractOrder) :
                  ( /\ HasKeywordOf(ContractOrder[k], text_lower)
                    /\ \A j \in 1..(k - 1) : ~HasKeywordOf(ContractOrder[j], text_lower) )
                  => result = ContractOrder[k]

\* A statement with both "cyber" and "market" has been categorized.
C2_Witness ==
    /\ pc = "categorized"
    /\ Contains(Lower(input.risk_text), Chars("cyber"))
    /\ Contains(Lower(input.risk_text), Chars("market"))
    /\ result = "Cybersecurity"

ContractHigh == {Chars("material adverse"), Chars("significant harm"), Chars("substantial loss")}
ContractMedium == {Chars("adverse"), Chars("negative"), Chars("impact")}

\* C3: assess_severity returns High whenever the lower-cased statement
\* holds a High phrase, whatever Medium phrase it holds too; Medium exactly
\* when it holds no High phrase and some Medium phrase; Low otherwise.
C3_HighBeforeMedium ==
    pc = "assessed" =>
        LET text_lower == Lower(input.risk_text)
            high == \E p \in ContractHigh : Contains(text_lower, p)
            medium == \E p \in ContractMedium : Contains(text_lower, p)
        IN  /\ high => result = "High"
            /\ result = "Medium" <=> (~high /\ medium)
            /\ result = "Low" <=> (~high /\ ~medium)

\* A statement with both "material adverse" and "negative" has been assessed.
C3_Witness ==
    /\ pc = "assessed"
    /\ Contains(Lower(input.risk_text), Chars("material adverse"))
    /\ Contains(Lower(input.risk_text), Chars("negative"))
    /\ result = "High"

\* C4: every entry parse_risk_factors returns has a "risk" text longer than
\* 50 characters.
C4_RiskLongerThanFloor ==
    pc = "parsed" => \A k \in 1..Len(result) : Len(result[k].risk) > MinRiskLen

\* The part of C4 the code keeps: the floor holds of the match before it is
\* trimmed, so every entry comes from a match longer than 50 characters.
C4_MatchLongerThanFloor ==
    pc = "parsed" =>
        \A k \in 1..Len(result) :
            \E p \in 1..NumPatterns :
                LET matches == findall(p, input.risk_text)
                IN  \E j \in 1..Len(matches) :
                        Len(matches[j]) > MinRiskLen /\ Strip(matches[j]) = result[k].risk

\* The n-th of the matches of a pattern that survive: those among the first
\* 20 that are longer than 50 characters.
SurvivorIndexes(matches) ==
    {j \in 1..Len(matches) : j <= 20 /\ Len(matches[j]) > 50}

NthSurvivor(matches, n) ==
    matches[CHOOSE j \in SurvivorIndexes(matches) :
                Cardinality({i \in SurvivorIndexes(matches) : i < j}) = n - 1]

\* C5: the output of parse_risk_factors is, in this order, the surviving
\* bullet matches, the surviving numbered matches and the surviving sentence
\* matches, each in match order; a pattern contributes only from its first
\* 20 matches (a long match after the 20th is never returned); a text two
\* patterns match appears once for each; the output has at most 60 entries.
C5_ConcatenationOfCappedPatterns ==
    pc = "parsed" =>
        LET bullets == findall(1, input.risk_text)
            numbered == findall(2, input.risk_text)
            sentences == findall(3, input.risk_text)
            nb == Cardinality(SurvivorIndexes(bullets))
            nn == Cardinality(SurvivorIndexes(numbered))
            ns == Cardinality(SurvivorIndexes(sentences))
        IN  /\ Len(result) = nb + nn + ns
            /\ Len(result) <= 60
            /\ \A k \in 1..nb : result[k].risk = Strip(NthSurvivor(bullets, k))
            /\ \A k \in 1..nn : result[nb + k].risk = Strip(NthSurvivor(numbered, k))
            /\ \A k \in 1..ns : result[nb + nn + k].risk = Strip(NthSurvivor(sentences, k))

\* A section has been parsed whose first 20 bullet matches hold a short one
\* and whose later bullet matches hold a long one, which is not returned.
C5_Witness ==
    /\ pc = "parsed"
    /\ LET bullets == findall(1, input.risk_text)
       IN  /\ Len(bullets) > 20
           /\ \E j \in 1..20 : Len(bullets[j]) <= 50
           /\ \E j \in 21..Len(bullets) :
                 /\ Len(bullets[j]) > 50
                 /\ \A k \in 1..Len(result) : result[k].risk # Strip(bullets[j])

ContractCategories ==
    {"Cybersecurity", "Regulatory", "Market", "Financial", "Operational",
     "Technology", "Environmental", "General"}
ContractSeverities == {"High", "Medium", "Low"}

\* C9: for every string categorize_risk returns one of the eight categories
\* and assess_severity one of High, Medium, Low; the empty string gives
\* General and Low; every entry of parse_risk_factors carries such a pair.
C9_ClassificationIsTotal ==
    /\ pc = "categorized" =>
          /\ result \in ContractCategories
          /\ input.risk_text = <<>> => result = "General"
    /\ pc = "assessed" =>
          /\ result \in ContractSeverities
          /\ input.risk_text = <<>> => result = "Low"
    /\ pc = "parsed" =>
          \A k \in 1..Len(result) :
              /\ result[k].category \in ContractCategories
              /\ result[k].severity \in ContractSeverities

\* The empty string has been categorized.
C9_Witness ==
    /\ pc = "categorized"
    /\ input.risk_text = <<>>
    /\ result = "General"

-----------------------------------------------------------------------------
(* POST /extract/risk-factors                                              *)

ResponseLimit == 20    \* risk_factors[:20]

\* A wrong response: the whole list.
TopRiskFactors_unlimited(risk_factors) == risk_factors

\* risk_factors[:20]
TopRiskFactors(risk_factors) == Slice(risk_factors, 0, ResponseLimit)

\* The risk text the handler parses: the filing's own risk_factors, or,
\* when there is none, the part of the filing text between Item 1A and
\* Item 1B.
RiskTextOf(filing) ==
    IF filing.risk_factors # <<>> THEN filing.risk_factors
    ELSE extract_section_from_text(filing.text, Chars("item 1a"), Chars("item 1b"))

\* str(e) of the HTTPException raised at the lookup.
NoFilingsDetail == "404: No filings found"

\* The handler, from the request to the response or the HTTPException that
\* leaves it; every exception raised inside the try block, the
\* HTTPException of the empty lookup too, reaches the except clause and
\* leaves as a 500.  The filing store is not part of the service: the lookup
\* raises, finds no filing or finds one, and filing.text is a str or, as in
\* the business-description handler, a method, which has no lower().
extract_risk_factors(request, store) ==
    IF store.lookup = "error" THEN [status |-> 500, detail |-> "lookup failed"]
    ELSE IF request.accession_number = "" /\ store.lookup = "none"
    THEN [status |-> 500, detail |-> NoFilingsDetail]
    ELSE IF store.lookup = "none"
    THEN [status |-> 500, detail |-> "no filing"]
    ELSE IF store.filing.risk_factors = <<>> /\ store.filing.text_is_method
    THEN [status |-> 500, detail |-> "no attribute lower"]
    ELSE [status |-> 200,
          risk_factors |-> TopRiskFactors(parse_risk_factors(RiskTextOf(store.filing)))]

\* The texts of the filings that carry no risk_factors of their own.
FilingTexts ==
    { Chars("no markers here"),
      Chars("Item 1A. Risk Factors") \o BulletLong \o NumberedLong \o <<NL>> \o Chars("Item 1B. None"),
      Chars("ITEM 1A - ") \o Repeat(BulletLong, MatchCap) \o NumberedLong }

Filings ==
    { [risk_factors |-> t, text |-> <<>>, text_is_method |-> TRUE] :
          t \in Concats(RiskBlocks, MaxRiskBlocks) \ {<<>>} }
      \cup
    { [risk_factors |-> <<>>, text |-> t, text_is_method |-> m] :
          t \in FilingTexts, m \in BOOLEAN }

NoFiling == [risk_factors |-> <<>>, text |-> <<>>, text_is_method |-> TRUE]

Stores ==
    { [lookup |-> "found", filing |-> f] : f \in Filings }
      \cup { [lookup |-> l, filing |-> NoFiling] : l \in {"none", "error"} }

Requests == { [accession_number |-> a, form_type |-> "10-K"] : a \in {"", "0000320193-23-000106"} }

InitEndpoint ==
    /\ pc = "request"
    /\ \E r \in Requests, s \in Stores : input = [request |-> r, store |-> s]
    /\ result = <<>>

ExtractRiskFactors ==
    /\ pc = "request"
    /\ result' = extract_risk_factors(input.request, input.store)
    /\ pc' = "responded"
    /\ UNCHANGED input

NextEndpoint == ExtractRiskFactors

SpecEndpoint == InitEndpoint /\ [][NextEndpoint]_vars

\* C10: the response of /extract/risk-factors holds at most 20 entries, the
\* first 20 (or all) of the output of parse_risk_factors in its order; when
\* the bullet pattern alone gives 20 surviving candidates, no numbered or
\* sentence candidate is in the response.
C10_ResponseIsFirstTwenty ==
    (pc = "responded" /\ result.status = 200) =>
        LET risk_text == RiskTextOf(input.store.filing)
            all == parse_risk_factors(risk_text)
            bullets == findall(1, risk_text)
        IN  /\ Len(result.risk_factors) <= 20
            /\ Len(result.risk_factors) = Min(20, Len(all))
            /\ \A k \in 1..Len(result.risk_factors) : result.risk_factors[k] = all[k]
            /\ Cardinality(SurvivorIndexes(bullets)) = 20 =>
                  \A k \in 1..Len(result.risk_factors) :
                      result.risk_factors[k].risk = Strip(NthSurvivor(bullets, k))

\* A response has been given for a section with 20 surviving bullets and a
\* surviving numbered line.
C10_Witness ==
    /\ pc = "responded"
    /\ result.status = 200
    /\ LET risk_text == RiskTextOf(input.store.filing)
       IN  /\ Cardinality(SurvivorIndexes(findall(1, risk_text))) = 20
           /\ SurvivorIndexes(findall(2, risk_text)) # {}
           /\ Len(result.risk_factors) = 20

-----------------------------------------------------------------------------
(* extract_mda_highlights                                                  *)

SentenceWindow == 100   \* sentences[:100]
MaxHighlights == 5      \* len(highlights) >= 5
MinSentenceLen == 50    \* len(sentence) > 50

keywords ==
    <<Chars("increased"), Chars("decreased"), Chars("grew"), Chars("declined"),
      Chars("improved"), Chars("deteriorated"), Chars("revenue"), Chars("profit"),
      Chars("margin"), Chars("growth"), Chars("performance")>>

\* re.split(r'[.!?]+', text): the pieces between the runs of terminators,
\* the empty ones too.  runs holds the offset at which each run begins.
re_split(text) ==
    LET n == Len(text)
        runs == SelectSeq([i \in 1..n |-> i - 1],
                          LAMBDA i : /\ text[i + 1] \in Terminators
                                     /\ (i = 0 \/ text[i] \notin Terminators))
        StartOf(k) == IF k = 1 THEN 0 ELSE RunEnd(text, runs[k - 1], Terminators)
        EndOf(k) == IF k > Len(runs) THEN n ELSE runs[k]
    IN  [k \in 1..(Len(runs) + 1) |-> Slice(text, StartOf(k), EndOf(k))]

\* The test of the loop.
IsHighlight(sentence) ==
    AnyIn(keywords, Lower(sentence)) /\ Len(sentence) > MinSentenceLen

\* The next sentence at or after the k-th that passes the test of the loop,
\* or 0 when the loop runs out of sentences first.
NextHighlight(sentences, k) ==
    IF \E j \in k..Len(sentences) : IsHighlight(sentences[j])
    THEN CHOOSE j \in k..Len(sentences) :
            /\ IsHighlight(sentences[j])
            /\ \A i \in k..(j - 1) : ~IsHighlight(sentences[i])
    ELSE 0

\* The loop over sentences[:100], from the k-th sentence on; the iterations
\* that fail the test change nothing.
RECURSIVE HighlightLoop(_, _, _)
HighlightLoop(sentences, k, highlights) ==
    LET hit == NextHighlight(sentences, k)
    IN  IF hit = 0 THEN highlights
        ELSE LET appended == Append(highlights, Strip(sentences[hit]))
             IN  IF Len(appended) >= MaxHighlights THEN appended
                 ELSE HighlightLoop(sentences, hit + 1, appended)

\* A wrong loop: no break.
RECURSIVE HighlightLoopNoBreak(_, _, _)
HighlightLoopNoBreak(sentences, k, highlights) ==
    LET hit == NextHighlight(sentences, k)
    IN  IF hit = 0 THEN highlights
        ELSE HighlightLoopNoBreak(sentences, hit + 1,
                                  Append(highlights, Strip(sentences[hit])))

extract_mda_highlights_no_break(mda_text) ==
    HighlightLoopNoBreak(Slice(re_split(mda_text), 0, SentenceWindow), 1, <<>>)

extract_mda_highlights(mda_text) ==
    HighlightLoop(Slice(re_split(mda_text), 0, SentenceWindow), 1, <<>>)

\* The sentences the MD&A inputs are built from.
GrowthSentence == Pad(Chars(" Revenue increased over the prior year "), MinSentenceLen + 1) \o <<".">>
MarginSentence == <<NL>> \o Pad(Chars("Gross MARGIN declined"), MinSentenceLen) \o <<" ", "!">>
ShortSentence == Chars("Profit grew?!")
PlainSentence == Pad(Chars("The company opened new stores "), MinSentenceLen + 1) \o <<".">>
Filler == Chars("x.")

MdaBlocks ==
    { GrowthSentence, MarginSentence, ShortSentence, PlainSentence,
      Repeat(GrowthSentence, MaxHighlights - 1),
      Filler, Repeat(Filler, SentenceWindow - 2), <<".">> }

MaxMdaBlocks == 3

InitMda ==
    /\ pc = "call"
    /\ \E t \in Concats(MdaBlocks, MaxMdaBlocks) : input = [mda_text |-> t]
    /\ result = <<>>

ExtractMdaHighlights ==
    /\ pc = "call"
    /\ result' = extract_mda_highlights(input.mda_text)
    /\ pc' = "done"
    /\ UNCHANGED input

NextMda == ExtractMdaHighlights

SpecMda == InitMda /\ [][NextMda]_vars

\* The pieces, among the first 100, that the contract lets qualify.
QualifyingIndexes(pieces) ==
    {k \in 1..Len(pieces) :
        /\ k <= 100
        /\ Len(pieces[k]) > 50
        /\ \E w \in 1..Len(keywords) : Contains(Lower(pieces[k]), keywords[w])}

NthQualifying(pieces, n) ==
    pieces[CHOOSE k \in QualifyingIndexes(pieces) :
               Cardinality({j \in QualifyingIndexes(pieces) : j < k}) = n - 1]

\* C6: extract_mda_highlights returns, trimmed and in scan order, the first
\* 5 (or all) qualifying pieces among the first 100 pieces of the split on
\* runs of '.', '!' and '?'; a piece qualifies when its lower case holds a
\* vocabulary word and it is longer than 50 characters.
C6_FirstFiveOfWindow ==
    pc = "done" =>
        LET pieces == re_split(input.mda_text)
        IN  /\ Len(result) <= 5
            /\ Len(result) = Min(5, Cardinality(QualifyingIndexes(pieces)))
            /\ \A n \in 1..Len(result) : result[n] = Strip(NthQualifying(pieces, n))

\* Highlights have been extracted from a text that has qualifying pieces,
\* fewer than 5, among its first 100 pieces and a qualifying piece after
\* them.
C6_Witness ==
    /\ pc = "done"
    /\ LET pieces == re_split(input.mda_text)
       IN  /\ Len(pieces) > 100
           /\ \E k \in 101..Len(pieces) :
                 Len(pieces[k]) > 50 /\ AnyIn(keywords, Lower(pieces[k]))
           /\ Len(result) < 5
           /\ Len(result) > 0

-----------------------------------------------------------------------------
(* compare_text_sections                                                   *)

Abs(n) == IF n < 0 THEN -n ELSE n

\* A wrong comparison: a change of exactly one tenth counts.
compare_text_sections_at_least(text1, text2) ==
    [length_change |-> Len(text2) - Len(text1),
     significant_change |-> 10 * Abs(Len(text2) - Len(text1)) >= Len(text1)]

\* A wrong comparison: the threshold is a tenth of the second text.
compare_text_sections_second(text1, text2) ==
    [length_change |-> Len(text2) - Len(text1),
     significant_change |-> 10 * Abs(Len(text2) - Len(text1)) > Len(text2)]

\* abs(len(text2) - len(text1)) > len(text1) * 0.1.  The double 0.1 is above
\* one tenth by less than 2^-58 and rounding keeps the order of the
\* integers, so for every length a str can have the comparison of the
\* integer with the double is the comparison of ten times the integer with
\* the length.
compare_text_sections(text1, text2) ==
    [length_change |-> Len(text2) - Len(text1),
     significant_change |-> 10 * Abs(Len(text2) - Len(text1)) > Len(text1)]

MaxTextLen == 12

ExampleShort == Chars("short")
ExampleLong == Chars("a very very very long text")

CompareTexts ==
    {Repeat(<<c>>, n) : c \in {"a", "b"}, n \in 0..MaxTextLen}
        \cup {ExampleShort, ExampleLong}

InitCompare ==
    /\ pc = "call"
    /\ \E a \in CompareTexts, b \in CompareTexts : input = [text1 |-> a, text2 |-> b]
    /\ result = <<>>

CompareTextSections ==
    /\ pc = "call"
    /\ result' = compare_text_sections(input.text1, input.text2)
    /\ pc' = "done"
    /\ UNCHANGED input

NextCompare == CompareTextSections

SpecCompare == InitCompare /\ [][NextCompare]_vars

\* C7: length_change is len(text2) - len(text1) and significant_change says
\* that its absolute value is more than a tenth of len(text1): a change of
\* exactly a tenth is not significant, texts of equal length never are, and
\* with text1 empty the change is significant exactly when text2 is not
\* empty.
C7_SignificantOverTenth ==
    pc = "done" =>
        LET n1 == Len(input.text1)
            n2 == Len(input.text2)
        IN  /\ result.length_change = n2 - n1
            /\ result.significant_change <=> (10 * Abs(n2 - n1) > n1)
            /\ 10 * Abs(n2 - n1) = n1 => ~result.significant_change
            /\ n1 = n2 => ~result.significant_change
            /\ n1 = 0 => (result.significant_change <=> input.text2 # <<>>)

\* Texts of 10 and 11 characters, a change of exactly a tenth, have been
\* compared.
C7_Witness ==
    /\ pc = "done"
    /\ Len(input.text1) = 10
    /\ Len(input.text2) = 11
    /\ ~result.significant_change

\* C8: on "short" and "a very very very long text" compare(a, b) and
\* compare(b, a) disagree on significant_change.
C8_ExamplePairDisagrees ==
    (pc = "done" /\ input.text1 = ExampleShort /\ input.text2 = ExampleLong) =>
        result.significant_change #
            compare_text_sections(input.text2, input.text1).significant_change

\* C8 as amended: on the example pair both calls report a significant
\* change, of 21 and -21 characters; the two calls disagree on texts of 9
\* and 10 characters, where only the call with the shorter text first
\* reports one.
C8_ExamplePairAgrees ==
    /\ (pc = "done" /\ input.text1 = ExampleShort /\ input.text2 = ExampleLong) =>
          /\ result = [length_change |-> 21, significant_change |-> TRUE]
          /\ compare_text_sections(input.text2, input.text1) =
                 [length_change |-> -21, significant_change |-> TRUE]
    /\ (pc = "done" /\ Len(input.text1) = 9 /\ Len(input.text2) = 10) =>
          /\ result.significant_change
          /\ ~compare_text_sections(input.text2, input.text1).significant_change

\* The example pair has been compared.
C8_Witness ==
    /\ pc = "done"
    /\ input.text1 = ExampleShort
    /\ input.text2 = ExampleLong
    /\ result.significant_change

-----------------------------------------------------------------------------
(* Claim about the bullet pattern of parse_risk_factors                    *)

\* The lines of a text: its parts between the line breaks.
RECURSIVE LinesFrom(_, _)
LinesFrom(text, pos) ==
    LET e == RunEndNot(text, pos, {NL})
    IN  IF e >= Len(text) THEN <<Slice(text, pos, Len(text))>>
        ELSE <<Slice(text, pos, e)>> \o LinesFrom(text, e + 1)

LinesOf(text) == LinesFrom(text, 0)

\* A line that begins, after optional white space, with a bullet character.
IsBulletLine(line) ==
    LET a == RunEnd(line, 0, Whitespace)
    IN  a < Len(line) /\ line[a + 1] \in {BULLET, MIDDOT, "-", "*"}

\* The text of a bullet line after its bullet and the white space behind it.
AfterBullet(line) ==
    Slice(line, RunEnd(line, RunEnd(line, 0, Whitespace) + 1, Whitespace), Len(line))

\* C11: every line of the risk text that begins, after optional white
\* space, with one of the bullet characters, whose text after the bullet is
\* longer than 50 characters and which is among the first 20 bullet lines,
\* is returned by parse_risk_factors, the first line of the text too.
C11_EveryBulletLineIsReturned ==
    pc = "parsed" =>
        LET lines == LinesOf(input.risk_text)
            bullets == {k \in 1..Len(lines) : IsBulletLine(lines[k])}
        IN  \A k \in bullets :
                ( /\ Cardinality({j \in bullets : j < k}) < 20
                  /\ Len(AfterBullet(lines[k])) > 50 )
                => \E n \in 1..Len(result) : result[n].risk = Strip(AfterBullet(lines[k]))

-----------------------------------------------------------------------------
(* POST /extract/business-description, POST /extract/mda, and the filing   *)
(* lookup the three /extract handlers share                                *)

DescriptionLimit == 5000   \* business_text[:5000]
MdaLimit == 10000          \* mda_text[:10000]

\* The text the except clause of the fallback leaves as business_text.
BusinessPlaceholder ==
    Chars("Business information available for Acme - content extraction may need refinement")

\* The business text of a filing: filing.business, or, when the filing has
\* no such attribute, the part of str(filing.text()) between Item 1 and
\* Item 1A; a filing.text that cannot be called raises inside the inner try
\* and leaves the placeholder.
BusinessTextOf(filing) ==
    IF filing.has_business THEN filing.business
    ELSE IF filing.text_is_method
    THEN extract_section_from_text(filing.text, Chars("item 1"), Chars("item 1a"))
    ELSE BusinessPlaceholder

\* The handler of /extract/business-description, from the request to the
\* response or the HTTPException that leaves it: the HTTPException of the
\* empty lookup is raised inside the try block, and except Exception turns
\* it, like every other exception, into a 500.
extract_business_description(request, store) ==
    IF store.lookup = "error" THEN [status |-> 500, detail |-> "lookup failed"]
    ELSE IF request.accession_number = "" /\ store.lookup = "none"
    THEN [status |-> 500, detail |-> NoFilingsDetail]
    ELSE IF store.lookup = "none"
    THEN [status |-> 500, detail |-> "no filing"]
    ELSE [status |-> 200,
          description |-> Slice(BusinessTextOf(store.filing), 0, DescriptionLimit)]

\* The MD&A text the handler uses: filing.mda, or, when there is none, the
\* part of the filing text between Item 7 and Item 7A.
MdaTextOf(filing) ==
    IF filing.mda # <<>> THEN filing.mda
    ELSE extract_section_from_text(filing.text, Chars("item 7"), Chars("item 7a"))

\* The handler of /extract/mda, with the same try block around the lookup.
extract_mda(request, store) ==
    IF store.lookup = "error" THEN [status |-> 500, detail |-> "lookup failed"]
    ELSE IF request.accession_number = "" /\ store.lookup = "none"
    THEN [status |-> 500, detail |-> NoFilingsDetail]
    ELSE IF store.lookup = "none"
    THEN [status |-> 500, detail |-> "no filing"]
    ELSE IF store.filing.mda = <<>> /\ store.filing.text_is_method
    THEN [status |-> 500, detail |-> "no attribute lower"]
    ELSE [status |-> 200,
          mda |-> Slice(MdaTextOf(store.filing), 0, MdaLimit),
          highlights |-> extract_mda_highlights(MdaTextOf(store.filing))]

\* The filing texts of the lookup inputs.
LookupTexts ==
    { Chars("no markers here"),
      Chars("Item 1. Business We sell things Item 1A. Risk Factors") \o BulletLong
          \o <<NL>> \o Chars("Item 1B. None Item 7. MD&A ") \o GrowthSentence
          \o Chars(" Item 7A. Market") }

LookupFilings ==
    { [has_business |-> hb,
       business |-> IF hb THEN Chars("We sell things") ELSE <<>>,
       risk_factors |-> rf, mda |-> md, text |-> t, text_is_method |-> m] :
          hb \in BOOLEAN, rf \in {<<>>, BulletLong}, md \in {<<>>, GrowthSentence},
          t \in LookupTexts, m \in BOOLEAN }

LookupNoFiling ==
    [has_business |-> FALSE, business |-> <<>>, risk_factors |-> <<>>, mda |-> <<>>,
     text |-> <<>>, text_is_method |-> TRUE]

LookupStores ==
    { [lookup |-> "found", filing |-> f] : f \in LookupFilings }
      \cup { [lookup |-> l, filing |-> LookupNoFiling] : l \in {"none", "error"} }

InitLookup ==
    /\ pc = "request"
    /\ \E r \in Requests, s \in LookupStores : input = [request |-> r, store |-> s]
    /\ result = <<>>

ExtractBusinessDescription ==
    /\ pc = "request"
    /\ result' = extract_business_description(input.request, input.store)
    /\ pc' = "business_responded"
    /\ UNCHANGED input

ExtractMda ==
    /\ pc = "request"
    /\ result' = extract_mda(input.request, input.store)
    /\ pc' = "mda_responded"
    /\ UNCHANGED input

NextLookup == ExtractBusinessDescription \/ ExtractRiskFactors \/ ExtractMda

SpecLookup == InitLookup /\ [][NextLookup]_vars

Responded == pc \in {"business_responded", "responded", "mda_responded"}

\* C12: in /extract/business-description, /extract/risk-factors and
\* /extract/mda, a request without accession number whose lookup finds no
\* filing of the form type is answered 404, "No <form_type> filings found";
\* the 500 of the generic exception path answers other failures only.
C12_EmptyLookupAnswers404 ==
    Responded =>
        LET empty_lookup ==
                input.request.accession_number = "" /\ input.store.lookup = "none"
        IN  /\ empty_lookup => result.status = 404
            /\ result.status = 500 => ~empty_lookup

\* What the three handlers do instead: the empty lookup is answered 500,
\* with the HTTPException of the lookup as the detail.
C12_EmptyLookupAnswers500 ==
    ( /\ Responded
      /\ input.request.accession_number = ""
      /\ input.store.lookup = "none" )
    => result = [status |-> 500, detail |-> NoFilingsDetail]

====
